---- MODULE Spec2Model ----
(***************************************************************************)
(* Model of process_keystroke_data.py: process_keystroke_file reads one    *)
(* participant's tab-delimited keystroke log, groups the records by        *)
(* sentence, aligns each group against the target text with a single       *)
(* expectation pointer and derives bigram, word and sentence timings.      *)
(*                                                                         *)
(* A Python str is modelled as a sequence of one-character strings, so     *)
(* that strip(), lower(), int(), the per-character scans and the regular   *)
(* expression are computed character by character as the code does.        *)
(* Python indices are 0-based: expected_pos and current_word_index keep    *)
(* their 0-based values and index the TLA+ sequences at value + 1.         *)
(***************************************************************************)
EXTENDS Integers, Sequences, FiniteSets, TLC

\* ------------------------------------------------------------------------
\* Module constants

MAX_INTERVAL_MS == 3000
MIN_INTERVAL_MS == 30

\* ------------------------------------------------------------------------
\* Characters of the modelled alphabet

LowerLetters == {"a", "b", "c", "e", "h", "t", "x"}
UpperLetters == {"A", "B"}

\* str.isalpha() on one character
IsAlphaChar(c) == c \in LowerLetters \cup UpperLetters

\* str.lower() on one character
LowerChar(c) == CASE c = "A" -> "a" [] c = "B" -> "b" [] OTHER -> c

\* str.isspace() on one character; also the characters str.strip() removes
IsSpaceChar(c) == c \in {" ", "\t"}

Digits == {"0", "1", "2", "3", "4", "5", "6", "7", "8", "9"}

\* the literal of line 83: punctuation and digits (the grave accent cannot be
\* written in a TLA+ string and is in no modelled input)
TypableSymbols ==
    {".", ",", "!", "?", ";", ":", "\"", "'", "~", "@", "#", "$", "%",
     "^", "&", "*", "(", ")", "_", "+", "-", "=", "[", "]", "{", "}", "|",
     "\\", "<", ">", "/"} \cup Digits

\* ------------------------------------------------------------------------
\* String helpers

RECURSIVE LStrip(_)
LStrip(s) == IF s # <<>> /\ IsSpaceChar(Head(s)) THEN LStrip(Tail(s)) ELSE s

RECURSIVE RStrip(_)
RStrip(s) ==
    IF s # <<>> /\ IsSpaceChar(s[Len(s)])
    THEN RStrip(SubSeq(s, 1, Len(s) - 1))
    ELSE s

\* str.strip()
Strip(s) == RStrip(LStrip(s))

\* str.lower()
Lower(s) == [i \in 1..Len(s) |-> LowerChar(s[i])]

DigitVal(c) ==
    CASE c = "0" -> 0 [] c = "1" -> 1 [] c = "2" -> 2 [] c = "3" -> 3
      [] c = "4" -> 4 [] c = "5" -> 5 [] c = "6" -> 6 [] c = "7" -> 7
      [] c = "8" -> 8 [] c = "9" -> 9

RECURSIVE DigitsVal(_)
DigitsVal(s) ==
    IF s = <<>> THEN 0
    ELSE 10 * DigitsVal(SubSeq(s, 1, Len(s) - 1)) + DigitVal(s[Len(s)])

IsDigits(s) == s # <<>> /\ \A i \in 1..Len(s) : s[i] \in Digits

\* int(s) succeeds: surrounding whitespace is ignored, an optional sign is
\* followed by decimal digits (no digit-group underscores occur in the
\* modelled inputs)
IsInt(s) ==
    LET t == Strip(s) IN
    /\ t # <<>>
    /\ IF Head(t) \in {"+", "-"} THEN IsDigits(Tail(t)) ELSE IsDigits(t)

\* the value of int(s) when it succeeds
IntOf(s) ==
    LET t == Strip(s) IN
    IF Head(t) = "-" THEN 0 - DigitsVal(Tail(t))
    ELSE IF Head(t) = "+" THEN DigitsVal(Tail(t))
    ELSE DigitsVal(t)

\* the sequence without its i-th element
RemoveAt(sq, i) == SubSeq(sq, 1, i - 1) \o SubSeq(sq, i + 1, Len(sq))

\* ------------------------------------------------------------------------
\* Character classification (keystroke strings)

\* a letter test that also accepts digits and punctuation
is_letter_or_symbol(letter_str) ==
    IF letter_str = <<>> \/ Len(letter_str) # 1 THEN FALSE
    ELSE IsAlphaChar(letter_str[1]) \/ letter_str[1] \in TypableSymbols

is_letter(letter_str) ==
    IF letter_str = <<>> \/ Len(letter_str) # 1 THEN FALSE
    ELSE IsAlphaChar(letter_str[1])

is_typable_character(letter_str) ==
    IF letter_str = <<>> \/ Len(letter_str) # 1 THEN FALSE
    ELSE IsAlphaChar(letter_str[1]) \/ letter_str[1] \in TypableSymbols

\* ------------------------------------------------------------------------
\* Target Sequence Builder

\* re.findall(r'[a-zA-Z]+', s): the maximal runs of ASCII letters of s, left
\* to right; cur is the run being scanned
RECURSIVE FindLetterRuns(_, _)
FindLetterRuns(s, cur) ==
    IF s = <<>> THEN (IF cur = <<>> THEN <<>> ELSE <<cur>>)
    ELSE IF Head(s) \in LowerLetters \cup UpperLetters
         THEN FindLetterRuns(Tail(s), Append(cur, Head(s)))
         ELSE (IF cur = <<>> THEN <<>> ELSE <<cur>>)
              \o FindLetterRuns(Tail(s), <<>>)

extract_words_from_sentence(sentence_text) ==
    IF sentence_text = <<>> THEN <<>>
    ELSE FindLetterRuns(Lower(sentence_text), <<>>)

get_expected_sequence(target_text) ==
    IF target_text = <<>> THEN <<>>
    ELSE SelectSeq(Lower(target_text),
                   LAMBDA char : is_typable_character(<<char>>) \/ char = " ")

\* ------------------------------------------------------------------------
\* Keystroke Record Loader

\* the five required columns, in the order the code looks them up
RequiredColumns ==
    <<"LETTER", "PRESS_TIME", "SENTENCE", "USER_INPUT", "TEST_SECTION_ID">>

\* header.index(name) + 1, or 0 where the code raises ValueError
IndexOf(header, name) ==
    IF \E i \in 1..Len(header) : header[i] = name
    THEN CHOOSE i \in 1..Len(header) :
             /\ header[i] = name
             /\ \A j \in 1..(i - 1) : header[j] # name
    ELSE 0

HeaderOk(header) ==
    \A k \in 1..Len(RequiredColumns) : IndexOf(header, RequiredColumns[k]) # 0

ColumnIndices(header) ==
    [letter_idx       |-> IndexOf(header, "LETTER"),
     press_time_idx   |-> IndexOf(header, "PRESS_TIME"),
     sentence_idx     |-> IndexOf(header, "SENTENCE"),
     user_input_idx   |-> IndexOf(header, "USER_INPUT"),
     test_section_idx |-> IndexOf(header, "TEST_SECTION_ID")]

MaxOf(S) == CHOOSE m \in S : \A n \in S : n <= m

\* len(row) <= max(the 0-based indices)
RowTooShort(row, idx) ==
    Len(row) < MaxOf({idx.letter_idx, idx.press_time_idx, idx.sentence_idx,
                      idx.user_input_idx, idx.test_section_idx})

\* f"{test_section}_{sentence}"
SentenceKey(test_section, sentence) == test_section \o <<"_">> \o sentence

EmptyLoad ==
    [sentence_keys |-> <<>>, sentences_data |-> <<>>, sentence_targets |-> <<>>]

\* a row whose PRESS_TIME does not parse discards what was loaded before it
OnBadPressTimeDiscardsLoaded(st, key, sentence) == EmptyLoad

\* what a row whose PRESS_TIME does not parse does to the loader's state:
\* int() raises before anything is stored
OnBadPressTime(st, key, sentence) == st

\* one iteration of the row loop; st.sentence_keys is the insertion order of
\* the dictionary sentences_data, which the sentence loop iterates
LoadRow(st, row, idx) ==
    IF RowTooShort(row, idx) THEN st
    ELSE
      LET letter       == Strip(row[idx.letter_idx])
          sentence     == Strip(row[idx.sentence_idx])
          user_input   == Strip(row[idx.user_input_idx])
          test_section == Strip(row[idx.test_section_idx])
          sentence_key == SentenceKey(test_section, sentence)
      IN
      IF ~IsInt(row[idx.press_time_idx])
      THEN OnBadPressTime(st, sentence_key, sentence)
      ELSE
        LET press_time == IntOf(row[idx.press_time_idx])
            known == sentence_key \in DOMAIN st.sentences_data
            entry == <<letter, press_time, user_input, sentence>>
        IN
        [sentence_keys |->
             IF known THEN st.sentence_keys
             ELSE Append(st.sentence_keys, sentence_key),
         sentence_targets |->
             IF sentence_key \in DOMAIN st.sentence_targets
             THEN st.sentence_targets
             ELSE (sentence_key :> sentence) @@ st.sentence_targets,
         sentences_data |->
             IF known
             THEN [st.sentences_data EXCEPT
                       ![sentence_key] = Append(@, entry)]
             ELSE (sentence_key :> <<entry>>) @@ st.sentences_data]

\* an insertion that puts a keystroke before the ones of equal press_time
RECURSIVE InsertByTimeBeforeEqual(_, _)
InsertByTimeBeforeEqual(sorted, k) ==
    IF sorted = <<>> THEN <<k>>
    ELSE IF sorted[Len(sorted)][2] < k[2] THEN Append(sorted, k)
    ELSE Append(InsertByTimeBeforeEqual(SubSeq(sorted, 1, Len(sorted) - 1),
                                        k),
                sorted[Len(sorted)])

\* where list.sort puts a keystroke among the already ordered ones: after
\* every keystroke whose press_time is not greater (the sort is stable)
RECURSIVE InsertByTime(_, _)
InsertByTime(sorted, k) ==
    IF sorted = <<>> THEN <<k>>
    ELSE IF sorted[Len(sorted)][2] <= k[2] THEN Append(sorted, k)
    ELSE Append(InsertByTime(SubSeq(sorted, 1, Len(sorted) - 1), k),
                sorted[Len(sorted)])

\* keystrokes.sort(key=lambda x: x[1])
RECURSIVE SortByPressTime(_)
SortByPressTime(keystrokes) ==
    IF keystrokes = <<>> THEN <<>>
    ELSE InsertByTime(
             SortByPressTime(SubSeq(keystrokes, 1, Len(keystrokes) - 1)),
             keystrokes[Len(keystrokes)])

\* ------------------------------------------------------------------------
\* Sequence Aligner and Word Segmenter

\* an alignment state whose word index goes on from the words emitted so far
InitAlignmentSharedIndex(word_times0) ==
    [expected_pos         |-> 0,
     correct_letters      |-> <<>>,
     correct_all_chars    |-> <<>>,
     current_word_letters |-> <<>>,
     current_word_index   |-> Len(word_times0),
     word_times           |-> word_times0]

\* the alignment state at the start of a sentence group (lines 188-192);
\* word_times is the function-level list the loop appends to
InitAlignment(word_times0) ==
    [expected_pos         |-> 0,
     correct_letters      |-> <<>>,
     correct_all_chars    |-> <<>>,
     current_word_letters |-> <<>>,
     current_word_index   |-> 0,
     word_times           |-> word_times0]

\* the filter of line 198
IsCandidate(char) == is_typable_character(char) \/ char = <<" ">>

\* a test that accepts a key found anywhere in the expected sequence
IsMatchAnyPosition(char, expected_pos, expected_sequence) ==
    /\ expected_pos < Len(expected_sequence)
    /\ \E i \in 1..Len(expected_sequence) :
           Lower(char) = <<expected_sequence[i]>>

\* the test of line 202; char is a candidate, so the lower-cased keystroke
\* string is compared with the one expected character
IsMatch(char, expected_pos, expected_sequence) ==
    /\ expected_pos < Len(expected_sequence)
    /\ Lower(char) = <<expected_sequence[expected_pos + 1]>>

\* the test of lines 213-214, with expected_pos already advanced
IsWordBoundary(char, expected_pos, expected_sequence) ==
    \/ char = <<" ">>
    \/ expected_pos >= Len(expected_sequence)
    \/ (/\ expected_pos < Len(expected_sequence)
        /\ expected_sequence[expected_pos + 1] = " ")

\* a window without its lower limit
InWindowNoMin(interval) == interval <= MAX_INTERVAL_MS

\* a window that excludes its two limits
InWindowStrict(interval) ==
    MIN_INTERVAL_MS < interval /\ interval < MAX_INTERVAL_MS

\* the outlier window of lines 230 and 260
InWindow(interval) ==
    MIN_INTERVAL_MS <= interval /\ interval <= MAX_INTERVAL_MS

\* ''.join([letter for letter, _ in current_word_letters])
TypedWord(current_word_letters) ==
    [i \in 1..Len(current_word_letters) |-> current_word_letters[i][1]]

\* the test of line 222
WordMatches(typed_word, expected_word) ==
    typed_word = expected_word /\ Len(typed_word) > 1

\* the Word records one closed word adds (lines 219-231)
WordRecords(current_word_letters, expected_word) ==
    LET typed_word    == TypedWord(current_word_letters)
        word_duration == current_word_letters[Len(current_word_letters)][2]
                         - current_word_letters[1][2]
    IN IF WordMatches(typed_word, expected_word) /\ InWindow(word_duration)
       THEN <<(<<expected_word, word_duration>>)>>
       ELSE <<>>

\* a word-boundary branch that moves to the next expected word only when a
\* Word record was emitted
CloseWordAdvanceOnAccept(a, expected_words) ==
    IF a.current_word_letters # <<>>
       /\ a.current_word_index < Len(expected_words)
    THEN LET recs == WordRecords(a.current_word_letters,
                                 expected_words[a.current_word_index + 1])
         IN [a EXCEPT
               !.word_times = @ \o recs,
               !.current_word_index = IF recs # <<>> THEN @ + 1 ELSE @,
               !.current_word_letters = <<>>]
    ELSE [a EXCEPT !.current_word_letters = <<>>]

\* the body of the word-boundary branch (lines 216-236)
CloseWord(a, expected_words) ==
    IF a.current_word_letters # <<>>
       /\ a.current_word_index < Len(expected_words)
    THEN [a EXCEPT
            !.word_times = @ \o WordRecords(a.current_word_letters,
                                   expected_words[a.current_word_index + 1]),
            !.current_word_index = @ + 1,
            !.current_word_letters = <<>>]
    ELSE [a EXCEPT !.current_word_letters = <<>>]

\* a mismatch that drops the letters of the word being typed
OnMismatchClearWord(a) == [a EXCEPT !.current_word_letters = <<>>]

\* a mismatch that resets the pointer
OnMismatchResetPointer(a) == [a EXCEPT !.expected_pos = 0]

\* the else branch of lines 237-240: pass
OnMismatch(a) == a

\* one iteration of the keystroke loop (lines 194-240)
AlignKeystrokeStep(a, keystroke, expected_sequence, expected_words) ==
    LET char       == keystroke[1]
        press_time == keystroke[2]
        user_input == keystroke[3]
    IN
    IF ~IsCandidate(char) THEN a
    ELSE IF IsMatch(char, a.expected_pos, expected_sequence)
    THEN
      LET b == [a EXCEPT
                  !.correct_letters =
                      IF is_letter(char)
                      THEN Append(@, <<char, press_time, user_input>>)
                      ELSE @,
                  !.current_word_letters =
                      IF is_letter(char)
                      THEN Append(@, <<LowerChar(char[1]), press_time>>)
                      ELSE @,
                  !.correct_all_chars = Append(@, <<char, press_time>>),
                  !.expected_pos = @ + 1]
      IN IF IsWordBoundary(char, b.expected_pos, expected_sequence)
         THEN CloseWord(b, expected_words)
         ELSE b
    ELSE OnMismatch(a)

\* ------------------------------------------------------------------------
\* Interval Extractor

\* Sentence records put through the outlier window
SentenceRecordsWindowed(correct_letters) ==
    IF Len(correct_letters) >= 2
       /\ InWindow(correct_letters[Len(correct_letters)][2]
                   - correct_letters[1][2])
    THEN <<(<<correct_letters[1][3],
              correct_letters[Len(correct_letters)][2]
                - correct_letters[1][2]>>)>>
    ELSE <<>>

\* the Sentence records of one group (lines 243-248)
SentenceRecords(correct_letters) ==
    IF Len(correct_letters) >= 2
    THEN LET first_time == correct_letters[1][2]
             last_time  == correct_letters[Len(correct_letters)][2]
         IN <<(<<correct_letters[1][3], last_time - first_time>>)>>
    ELSE <<>>

\* the Bigram records of the pairs i, i+1, ... of the matched stream
\* (lines 251-262); i is 1-based
RECURSIVE BigramRecords(_, _)
BigramRecords(correct_all_chars, i) ==
    IF i >= Len(correct_all_chars) THEN <<>>
    ELSE
      LET char1    == correct_all_chars[i][1]
          time1    == correct_all_chars[i][2]
          char2    == correct_all_chars[i + 1][1]
          time2    == correct_all_chars[i + 1][2]
          interval == time2 - time1
      IN (IF /\ is_typable_character(char1)
             /\ is_typable_character(char2)
             /\ InWindow(interval)
          THEN <<(<<Lower(char1) \o Lower(char2), interval>>)>>
          ELSE <<>>)
         \o BigramRecords(correct_all_chars, i + 1)

\* ------------------------------------------------------------------------
\* process_keystroke_file as a function of the file's content

NoRecords ==
    [bigram_intervals |-> <<>>, sentence_times |-> <<>>, word_times |-> <<>>]

\* the row loop of lines 147-168 from row i on
RECURSIVE LoadRows(_, _, _, _)
LoadRows(st, rows, i, idx) ==
    IF i > Len(rows) THEN st
    ELSE LoadRows(LoadRow(st, rows[i], idx), rows, i + 1, idx)

\* the keystroke loop of lines 194-240 from keystroke i on
RECURSIVE AlignFrom(_, _, _, _, _)
AlignFrom(a, keystrokes, i, expected_sequence, expected_words) ==
    IF i > Len(keystrokes) THEN a
    ELSE AlignFrom(AlignKeystrokeStep(a, keystrokes[i], expected_sequence,
                                      expected_words),
                   keystrokes, i + 1, expected_sequence, expected_words)

\* one iteration of the sentence loop (lines 172-262)
ProcessSentence(out, keystrokes0, target_text) ==
    LET keystrokes        == SortByPressTime(keystrokes0)
        expected_sequence == get_expected_sequence(target_text)
        expected_words    == extract_words_from_sentence(target_text)
    IN
    IF keystrokes = <<>> \/ expected_sequence = <<>> THEN out
    ELSE
      LET a == AlignFrom(InitAlignment(out.word_times), keystrokes, 1,
                         expected_sequence, expected_words)
      IN [bigram_intervals |->
              out.bigram_intervals \o BigramRecords(a.correct_all_chars, 1),
          sentence_times |->
              out.sentence_times \o SentenceRecords(a.correct_letters),
          word_times |-> a.word_times]

\* the sentence loop from group g on, in dictionary order
RECURSIVE ProcessSentences(_, _, _)
ProcessSentences(out, st, g) ==
    IF g > Len(st.sentence_keys) THEN out
    ELSE LET sentence_key == st.sentence_keys[g]
         IN ProcessSentences(
                ProcessSentence(out, st.sentences_data[sentence_key],
                                st.sentence_targets[sentence_key]),
                st, g + 1)

\* the three lists process_keystroke_file returns for the file f of the
\* participant: none when open() raises FileNotFoundError (lines 264-266) or
\* a required column is absent (lines 139-141)
ProcessFile(f) ==
    IF ~f.exists \/ ~HeaderOk(f.header) THEN NoRecords
    ELSE ProcessSentences(
             NoRecords,
             LoadRows(EmptyLoad, f.rows, 1, ColumnIndices(f.header)),
             1)

\* ------------------------------------------------------------------------
\* Inputs

MaxRows == 3

\* the column order of the modelled logs
LogHeader ==
    <<"TEST_SECTION_ID", "SENTENCE", "USER_INPUT", "PRESS_TIME", "LETTER">>

MkRow(letter, press_time, sentence, user_input, test_section) ==
    <<test_section, sentence, user_input, press_time, letter>>

\* every row a family of logs is built from
FamilyRows(letters, times, sentences, user_inputs, sections) ==
    {MkRow(l, t, s, u, c) :
         l \in letters, t \in times, s \in sentences, u \in user_inputs,
         c \in sections}

SeqsUpTo(S, n) == UNION {[1..k -> S] : k \in 0..n}

\* target "aba": press times that put intervals below, on and above the
\* limits of the outlier window, and a PRESS_TIME that is not an integer
TimingRows ==
    FamilyRows({<<"a">>, <<"b">>},
               {<<"0">>, <<"1", "0">>, <<"3", "0">>, <<"3", "0", "3", "0">>,
                <<"x">>},
               {<<"a", "b", "a">>}, {<<"a", "x">>}, {<<"1">>})

\* target "a b": a space key, a special key and letters
SpaceRows ==
    FamilyRows({<<"a">>, <<" ">>, <<"b">>, <<"S", "H", "I", "F", "T">>},
               {<<"0">>, <<"4", "0">>},
               {<<"a", " ", "b">>}, {<<"a", " ", "b">>}, {<<"1">>})

\* targets without letters: "1." and one that strips to the empty string
SymbolRows ==
    FamilyRows({<<"1">>, <<".">>},
               {<<"0">>, <<"4", "0">>},
               {<<"1", ".">>, <<" ">>}, {<<"1">>}, {<<"1">>})

\* target "Ab": upper-case keys, and a row cut short before LETTER
CaseRows ==
    FamilyRows({<<"A">>, <<"b">>, <<"B">>},
               {<<"0">>, <<"4", "0">>},
               {<<"A", "b">>}, {<<"a", "b">>}, {<<"1">>})
    \cup {<<(<<"1">>), <<"A", "b">>, <<"a", "b">>, <<"0">>>>}

\* the target "ab" in two test sections, with unparsable press times
SectionRows ==
    FamilyRows({<<"a">>, <<"b">>},
               {<<"0">>, <<"4", "0">>, <<"1", ".", "5">>},
               {<<"a", "b">>}, {<<"a", "b">>}, {<<"1">>, <<"2">>})

\* target "a.b": a punctuation mark between two letters
PunctRows ==
    FamilyRows({<<"a">>, <<".">>, <<"b">>},
               {<<"0">>, <<"4", "0">>},
               {<<"a", ".", "b">>}, {<<"a", ".", "b">>}, {<<"1">>})

TheCat == <<"t", "h", "e", " ", "c", "a", "t">>

\* Scenario 1 of the specification: "the cat" typed as t,h,e,space,c,a,t
Scenario1Rows ==
    <<MkRow(<<"t">>, <<"0">>, TheCat, TheCat, <<"1">>),
      MkRow(<<"h">>, <<"1", "0", "0">>, TheCat, TheCat, <<"1">>),
      MkRow(<<"e">>, <<"2", "0", "0">>, TheCat, TheCat, <<"1">>),
      MkRow(<<" ">>, <<"3", "0", "0">>, TheCat, TheCat, <<"1">>),
      MkRow(<<"c">>, <<"4", "0", "0">>, TheCat, TheCat, <<"1">>),
      MkRow(<<"a">>, <<"5", "5", "0">>, TheCat, TheCat, <<"1">>),
      MkRow(<<"t">>, <<"6", "5", "0">>, TheCat, TheCat, <<"1">>)>>

\* logs of four records in which the sentence "ab" of section 1 and the
\* sentence "ba" of section 2 can interleave
InterleavedLogs ==
    LET Rec(l, t, c) ==
            IF c = "1"
            THEN MkRow(<<l>>, t, <<"a", "b">>, <<"a", "b">>, <<"1">>)
            ELSE MkRow(<<l>>, t, <<"b", "a">>, <<"b", "a">>, <<"2">>)
    IN {<<Rec(l[1], <<"0">>, c[1]), Rec(l[2], <<"0">>, c[2]),
          Rec(l[3], <<"4", "0">>, c[3]), Rec(l[4], <<"4", "0">>, c[4])>> :
            l \in [1..4 -> {"a", "b"}], c \in [1..4 -> {"1", "2"}]}

Logs ==
    SeqsUpTo(TimingRows, MaxRows) \cup SeqsUpTo(SpaceRows, MaxRows)
    \cup SeqsUpTo(SymbolRows, MaxRows) \cup SeqsUpTo(CaseRows, MaxRows)
    \cup SeqsUpTo(SectionRows, MaxRows) \cup {Scenario1Rows}
    \cup InterleavedLogs \cup SeqsUpTo(PunctRows, MaxRows)

\* ------------------------------------------------------------------------
\* process_keystroke_file as a state machine

VARIABLES
    file,                 \* the log: [exists, header, rows]
    pc,                   \* "open", "read", "sentence", "align", "done";
                          \* "participant", "finished" in calculate_all_data;
                          \* "filter_open", "filter", "filter_report",
                          \* "filter_done", "filter_failed" in
                          \* extract_filtered_rows
    columns,              \* the column indices found in the header
    row_i,                \* the next row of the row loop
    sentence_keys,        \* insertion order of the dictionary sentences_data
    sentences_data,
    sentence_targets,
    group_i,              \* the next group of the sentence loop
    keystrokes,           \* the sorted keystrokes of the current group
    ks_i,                 \* the next keystroke of the keystroke loop
    expected_sequence,
    expected_words,
    expected_pos,
    correct_letters,
    correct_all_chars,
    current_word_letters,
    current_word_index,
    bigram_intervals,
    sentence_times,
    word_times,
    participant_ids,      \* calculate_all_data: the filtered participants
    p_i,                  \* the next participant of the participant loop
    all_bigrams,
    all_sentence_times,
    all_word_times,
    processed_count,
    meta,                 \* extract_filtered_rows: the metadata file
    meta_i,               \* the next row of the metadata row loop
    filtered_rows,
    total_participants

loadVars == <<columns, row_i, sentence_keys, sentences_data, sentence_targets>>
groupVars == <<keystrokes, ks_i, expected_sequence, expected_words>>
alignVars == <<expected_pos, correct_letters, correct_all_chars,
               current_word_letters, current_word_index>>
outVars == <<bigram_intervals, sentence_times, word_times>>
aggVars == <<participant_ids, p_i, all_bigrams, all_sentence_times,
             all_word_times, processed_count>>
filterVars == <<meta, meta_i, filtered_rows, total_participants>>
vars == <<file, pc, loadVars, group_i, groupVars, alignVars, outVars,
          aggVars, filterVars>>

\* a keystroke log that exists
LogFile(header, rows) == [exists |-> TRUE, header |-> header, rows |-> rows]

\* a keystroke log that open() does not find
MissingFile == [exists |-> FALSE, header |-> <<>>, rows |-> <<>>]

\* calculate_all_data is not running
NoRun ==
    /\ participant_ids = <<>>
    /\ p_i = 1
    /\ all_bigrams = <<>>
    /\ all_sentence_times = <<>>
    /\ all_word_times = <<>>
    /\ processed_count = 0

\* extract_filtered_rows is not running
NoFilter ==
    /\ meta = [header |-> <<>>, rows |-> <<>>]
    /\ meta_i = 1
    /\ filtered_rows = <<>>
    /\ total_participants = 0

\* the locals of process_keystroke_file before its first statement
CallEntry ==
    /\ columns = ColumnIndices(<<>>)
    /\ row_i = 1
    /\ sentence_keys = <<>>
    /\ sentences_data = <<>>
    /\ sentence_targets = <<>>
    /\ group_i = 1
    /\ keystrokes = <<>>
    /\ ks_i = 1
    /\ expected_sequence = <<>>
    /\ expected_words = <<>>
    /\ expected_pos = 0
    /\ correct_letters = <<>>
    /\ correct_all_chars = <<>>
    /\ current_word_letters = <<>>
    /\ current_word_index = 0
    /\ bigram_intervals = <<>>
    /\ sentence_times = <<>>
    /\ word_times = <<>>

Init ==
    /\ file \in {LogFile(LogHeader, r) : r \in Logs}
    /\ pc = "open"
    /\ CallEntry
    /\ NoRun
    /\ NoFilter

\* a FileNotFoundError that is not caught ends the run
OnMissingFileAbort == "finished"

\* what the call does when open() raises FileNotFoundError (lines 264-266):
\* it returns, with three empty lists
OnMissingFile == "done"

\* lines 127-141 and 264-266: open the file, read the header and look the
\* required columns up
OpenFile ==
    /\ pc = "open"
    /\ IF ~file.exists
       THEN /\ pc' = OnMissingFile
            /\ UNCHANGED columns
       ELSE IF HeaderOk(file.header)
       THEN /\ columns' = ColumnIndices(file.header)
            /\ pc' = "read"
       ELSE /\ pc' = "done"
            /\ UNCHANGED columns
    /\ UNCHANGED <<file, row_i, sentence_keys, sentences_data,
                   sentence_targets, group_i, groupVars, alignVars, outVars>>
    /\ UNCHANGED <<aggVars, filterVars>>

\* lines 147-168: one row of the log
ReadRow ==
    /\ pc = "read"
    /\ row_i <= Len(file.rows)
    /\ LET st == LoadRow([sentence_keys    |-> sentence_keys,
                          sentences_data   |-> sentences_data,
                          sentence_targets |-> sentence_targets],
                         file.rows[row_i], columns)
       IN /\ sentence_keys' = st.sentence_keys
          /\ sentences_data' = st.sentences_data
          /\ sentence_targets' = st.sentence_targets
    /\ row_i' = row_i + 1
    /\ UNCHANGED <<file, pc, columns, group_i, groupVars, alignVars, outVars>>
    /\ UNCHANGED <<aggVars, filterVars>>

\* the row loop is exhausted: enter the sentence loop of line 172
EndOfRows ==
    /\ pc = "read"
    /\ row_i > Len(file.rows)
    /\ pc' = "sentence"
    /\ UNCHANGED <<file, loadVars, group_i, groupVars, alignVars, outVars>>
    /\ UNCHANGED <<aggVars, filterVars>>

\* lines 172-192: sort the next group in place, build its target sequence
\* and, unless the group is skipped, reset the alignment state
BeginSentence ==
    /\ pc = "sentence"
    /\ group_i <= Len(sentence_keys)
    /\ LET sentence_key == sentence_keys[group_i]
           sorted       == SortByPressTime(sentences_data[sentence_key])
           target_text  == sentence_targets[sentence_key]
           a            == InitAlignment(word_times)
       IN /\ sentences_data' = [sentences_data EXCEPT ![sentence_key] = sorted]
          /\ keystrokes' = sorted
          /\ IF sorted = <<>>
             THEN /\ group_i' = group_i + 1
                  /\ UNCHANGED <<pc, ks_i, expected_sequence, expected_words,
                                 alignVars>>
             ELSE /\ expected_sequence' = get_expected_sequence(target_text)
                  /\ expected_words' = extract_words_from_sentence(target_text)
                  /\ IF expected_sequence' = <<>>
                     THEN /\ group_i' = group_i + 1
                          /\ UNCHANGED <<pc, ks_i, alignVars>>
                     ELSE /\ pc' = "align"
                          /\ ks_i' = 1
                          /\ expected_pos' = a.expected_pos
                          /\ correct_letters' = a.correct_letters
                          /\ correct_all_chars' = a.correct_all_chars
                          /\ current_word_letters' = a.current_word_letters
                          /\ current_word_index' = a.current_word_index
                          /\ UNCHANGED group_i
    /\ UNCHANGED <<file, columns, row_i, sentence_keys, sentence_targets,
                   outVars>>
    /\ UNCHANGED <<aggVars, filterVars>>

\* the alignment state as one value
Alignment ==
    [expected_pos         |-> expected_pos,
     correct_letters      |-> correct_letters,
     correct_all_chars    |-> correct_all_chars,
     current_word_letters |-> current_word_letters,
     current_word_index   |-> current_word_index,
     word_times           |-> word_times]

\* lines 194-240: one keystroke of the current group
AlignKeystroke ==
    /\ pc = "align"
    /\ ks_i <= Len(keystrokes)
    /\ LET a == AlignKeystrokeStep(Alignment, keystrokes[ks_i],
                                   expected_sequence, expected_words)
       IN /\ expected_pos' = a.expected_pos
          /\ correct_letters' = a.correct_letters
          /\ correct_all_chars' = a.correct_all_chars
          /\ current_word_letters' = a.current_word_letters
          /\ current_word_index' = a.current_word_index
          /\ word_times' = a.word_times
    /\ ks_i' = ks_i + 1
    /\ UNCHANGED <<file, pc, loadVars, group_i, keystrokes,
                   expected_sequence, expected_words, bigram_intervals,
                   sentence_times>>
    /\ UNCHANGED <<aggVars, filterVars>>

\* lines 242-262: the keystroke loop is exhausted; sentence timing and
\* bigrams of the group, then the next group
FinishSentence ==
    /\ pc = "align"
    /\ ks_i > Len(keystrokes)
    /\ sentence_times' = sentence_times \o SentenceRecords(correct_letters)
    /\ bigram_intervals' =
           bigram_intervals \o BigramRecords(correct_all_chars, 1)
    /\ group_i' = group_i + 1
    /\ pc' = "sentence"
    /\ UNCHANGED <<file, loadVars, groupVars, alignVars, word_times>>
    /\ UNCHANGED <<aggVars, filterVars>>

\* line 271: the sentence loop is exhausted
Return ==
    /\ pc = "sentence"
    /\ group_i > Len(sentence_keys)
    /\ pc' = "done"
    /\ UNCHANGED <<file, loadVars, group_i, groupVars, alignVars, outVars>>
    /\ UNCHANGED <<aggVars, filterVars>>

Next ==
    \/ OpenFile
    \/ ReadRow
    \/ EndOfRows
    \/ BeginSentence
    \/ AlignKeystroke
    \/ FinishSentence
    \/ Return

Spec == Init /\ [][Next]_vars

\* what the call returns
Returned ==
    [bigram_intervals |-> bigram_intervals,
     sentence_times   |-> sentence_times,
     word_times       |-> word_times]

\* ------------------------------------------------------------------------
\* calculate_all_data: the participant loop

MaxParticipants == 2

\* a log whose target "ab" is typed as a, b: one bigram, one word, one
\* sentence
LogAB ==
    <<MkRow(<<"a">>, <<"0">>, <<"a", "b">>, <<"a", "b">>, <<"1">>),
      MkRow(<<"b">>, <<"4", "0">>, <<"a", "b">>, <<"a", "b">>, <<"1">>)>>

\* a log whose target "1." is typed as 1, .: one bigram only
LogSymbols ==
    <<MkRow(<<"1">>, <<"0">>, <<"1", ".">>, <<"1">>, <<"2">>),
      MkRow(<<".">>, <<"3", "0">>, <<"1", ".">>, <<"1">>, <<"2">>)>>

\* the file LogAB without its k-th column
LogWithoutColumn(k) ==
    LogFile(RemoveAt(LogHeader, k),
            [i \in 1..Len(LogAB) |-> RemoveAt(LogAB[i], k)])

\* keystroke_dir: the file "<participant_id>_keystrokes.txt" of each
\* participant; 3 has none, 4..8 lack one required column each, 9 is a log
\* without records
KeystrokeDir(participant_id) ==
    CASE participant_id = 1 -> LogFile(LogHeader, LogAB)
      [] participant_id = 2 -> LogFile(LogHeader, LogSymbols)
      [] participant_id = 3 -> MissingFile
      [] participant_id \in 4..8 -> LogWithoutColumn(participant_id - 3)
      [] participant_id = 9 -> LogFile(LogHeader, <<>>)

ParticipantIds == 1..9

InitAll ==
    /\ participant_ids \in SeqsUpTo(ParticipantIds, MaxParticipants)
    /\ p_i = 1
    /\ all_bigrams = <<>>
    /\ all_sentence_times = <<>>
    /\ all_word_times = <<>>
    /\ processed_count = 0
    /\ pc = "participant"
    /\ file = MissingFile
    /\ CallEntry
    /\ NoFilter

\* lines 291-294 and 119-125: the next participant's call of
\* process_keystroke_file begins
NextParticipant ==
    /\ pc = "participant"
    /\ p_i <= Len(participant_ids)
    /\ file' = KeystrokeDir(participant_ids[p_i])
    /\ pc' = "open"
    /\ columns' = ColumnIndices(<<>>)
    /\ row_i' = 1
    /\ sentence_keys' = <<>>
    /\ sentences_data' = <<>>
    /\ sentence_targets' = <<>>
    /\ group_i' = 1
    /\ keystrokes' = <<>>
    /\ ks_i' = 1
    /\ expected_sequence' = <<>>
    /\ expected_words' = <<>>
    /\ expected_pos' = 0
    /\ correct_letters' = <<>>
    /\ correct_all_chars' = <<>>
    /\ current_word_letters' = <<>>
    /\ current_word_index' = 0
    /\ bigram_intervals' = <<>>
    /\ sentence_times' = <<>>
    /\ word_times' = <<>>
    /\ UNCHANGED <<aggVars, filterVars>>

\* lines 294-303: the call has returned; its records extend the aggregated
\* lists when it returned any
CollectResults ==
    /\ pc = "done"
    /\ p_i <= Len(participant_ids)
    /\ IF bigram_intervals # <<>> \/ sentence_times # <<>> \/ word_times # <<>>
       THEN /\ all_bigrams' = all_bigrams \o bigram_intervals
            /\ all_sentence_times' = all_sentence_times \o sentence_times
            /\ all_word_times' = all_word_times \o word_times
            /\ processed_count' = processed_count + 1
       ELSE UNCHANGED <<all_bigrams, all_sentence_times, all_word_times,
                        processed_count>>
    /\ p_i' = p_i + 1
    /\ pc' = "participant"
    /\ UNCHANGED <<file, loadVars, group_i, groupVars, alignVars, outVars,
                   participant_ids, filterVars>>

\* line 305: the participant loop is exhausted
EndOfParticipants ==
    /\ pc = "participant"
    /\ p_i > Len(participant_ids)
    /\ pc' = "finished"
    /\ UNCHANGED <<file, loadVars, group_i, groupVars, alignVars, outVars,
                   aggVars, filterVars>>

NextAll ==
    \/ NextParticipant
    \/ OpenFile
    \/ ReadRow
    \/ EndOfRows
    \/ BeginSentence
    \/ AlignKeystroke
    \/ FinishSentence
    \/ Return
    \/ CollectResults
    \/ EndOfParticipants

SpecAll == InitAll /\ [][NextAll]_vars

\* the aggregated lists
Aggregated ==
    [bigram_intervals |-> all_bigrams,
     sentence_times   |-> all_sentence_times,
     word_times       |-> all_word_times]

\* ------------------------------------------------------------------------
\* filter_participants.py: extract_filtered_rows

\* max_error_rate = 1.167, in thousandths
MaxErrorRateMilli == 1167

\* float(s) succeeds: surrounding whitespace is ignored, an optional sign is
\* followed by digits with at most one decimal point and at least one digit
\* (the modelled inputs have no exponent, "inf" or "nan")
IsFloat(s) ==
    LET t == Strip(s)
        u == IF t # <<>> /\ Head(t) \in {"+", "-"} THEN Tail(t) ELSE t
        d == SelectSeq(u, LAMBDA c : c \in Digits)
        points == SelectSeq(u, LAMBDA c : c = ".")
    IN /\ d # <<>>
       /\ Len(points) <= 1
       /\ Len(d) + Len(points) = Len(u)

\* the position of the first "." of u, or Len(u) + 1
PointAt(u) ==
    IF \E i \in 1..Len(u) : u[i] = "."
    THEN CHOOSE i \in 1..Len(u) : u[i] = "." /\ \A j \in 1..(i - 1) : u[j] # "."
    ELSE Len(u) + 1

\* 1000 * float(s) for a decimal numeral of at most three decimals
MilliOf(s) ==
    LET t == Strip(s)
        negative == t # <<>> /\ Head(t) = "-"
        u == IF t # <<>> /\ Head(t) \in {"+", "-"} THEN Tail(t) ELSE t
        k == PointAt(u)
        whole == SubSeq(u, 1, k - 1)
        frac == SubSeq(u, k + 1, Len(u))
        padded == SubSeq(frac \o <<"0", "0", "0">>, 1, 3)
        v == 1000 * DigitsVal(whole) + DigitsVal(padded)
    IN IF negative THEN 0 - v ELSE v

FilterColumns(header) ==
    [layout_idx        |-> IndexOf(header, "LAYOUT"),
     fingers_idx       |-> IndexOf(header, "FINGERS"),
     keyboard_type_idx |-> IndexOf(header, "KEYBOARD_TYPE"),
     error_rate_idx    |-> IndexOf(header, "ERROR_RATE")]

FilterHeaderOk(header) ==
    \A name \in {"LAYOUT", "FINGERS", "KEYBOARD_TYPE", "ERROR_RATE"} :
        IndexOf(header, name) # 0

\* the conjunction of lines 85-88 for a row whose ERROR_RATE is numeric
MatchesCriteria(row, idx) ==
    LET layout        == Lower(Strip(row[idx.layout_idx]))
        fingers       == Strip(row[idx.fingers_idx])
        keyboard_type == Lower(Strip(row[idx.keyboard_type_idx]))
        error_rate    == MilliOf(row[idx.error_rate_idx])
    IN /\ layout = <<"q", "w", "e", "r", "t", "y">>
       /\ fingers \in {<<"7", "-", "8">>, <<"9", "-", "1", "0">>}
       /\ keyboard_type \in {<<"f", "u", "l", "l">>,
                             <<"l", "a", "p", "t", "o", "p">>}
       /\ error_rate < 1000

\* the row is appended to filtered_rows (lines 59-90)
KeepsRow(row, header) ==
    /\ ~(Len(row) < Len(header))
    /\ IsFloat(row[FilterColumns(header).error_rate_idx])
    /\ MatchesCriteria(row, FilterColumns(header))

MaxMetaRows == 2

MetaHeader ==
    <<"PARTICIPANT_ID", "LAYOUT", "FINGERS", "KEYBOARD_TYPE", "ERROR_RATE">>

\* metadata rows: two layouts, two finger counts, two keyboard types, error
\* rates below 1.0, between 1.0 and max_error_rate, and not numeric; and a
\* row cut short before ERROR_RATE
MetaRows ==
    {<<(<<"7">>), l, f, k, r>> :
         l \in {<<"q", "w", "e", "r", "t", "y">>,
                <<"a", "z", "e", "r", "t", "y">>},
         f \in {<<"9", "-", "1", "0">>, <<"7", "-", "8">>},
         k \in {<<"f", "u", "l", "l">>, <<"m", "o", "b", "i", "l", "e">>},
         r \in {<<"0", ".", "5">>, <<"1", ".", "1">>, <<"x">>}}
    \cup {<<(<<"7">>), <<"q", "w", "e", "r", "t", "y">>,
            <<"9", "-", "1", "0">>, <<"f", "u", "l", "l">>>>}

InitFilter ==
    /\ meta \in {[header |-> h, rows |-> r] :
                     h \in {MetaHeader, RemoveAt(MetaHeader, 3)},
                     r \in SeqsUpTo(MetaRows, MaxMetaRows)}
    /\ meta_i = 1
    /\ filtered_rows = <<>>
    /\ total_participants = 0
    /\ pc = "filter_open"
    /\ file = MissingFile
    /\ CallEntry
    /\ NoRun

\* lines 39-55: the header row is kept and the four columns are looked up
FilterOpen ==
    /\ pc = "filter_open"
    /\ filtered_rows' = Append(filtered_rows, meta.header)
    /\ pc' = IF FilterHeaderOk(meta.header) THEN "filter" ELSE "filter_failed"
    /\ UNCHANGED <<file, loadVars, group_i, groupVars, alignVars, outVars,
                   aggVars, meta, meta_i, total_participants>>

\* lines 58-90: one row of the metadata file
FilterRow ==
    /\ pc = "filter"
    /\ meta_i <= Len(meta.rows)
    /\ total_participants' =
           IF Len(meta.rows[meta_i]) < Len(meta.header)
           THEN total_participants
           ELSE total_participants + 1
    /\ filtered_rows' =
           IF KeepsRow(meta.rows[meta_i], meta.header)
           THEN Append(filtered_rows, meta.rows[meta_i])
           ELSE filtered_rows
    /\ meta_i' = meta_i + 1
    /\ UNCHANGED <<file, pc, loadVars, group_i, groupVars, alignVars, outVars,
                   aggVars, meta>>

\* lines 100-129: the row loop is exhausted; the breakdown divides by
\* total_participants, then filtered_rows is written and returned
FilterReport ==
    /\ pc = "filter"
    /\ meta_i > Len(meta.rows)
    /\ pc' = IF total_participants = 0 THEN "filter_failed" ELSE "filter_done"
    /\ UNCHANGED <<file, loadVars, group_i, groupVars, alignVars, outVars,
                   aggVars, filterVars>>

NextFilter ==
    \/ FilterOpen
    \/ FilterRow
    \/ FilterReport

SpecFilter == InitFilter /\ [][NextFilter]_vars

\* ------------------------------------------------------------------------
\* Properties

\* the keystroke the next AlignKeystroke step processes
AtKeystroke == pc = "align" /\ ks_i <= Len(keystrokes)

\* C1: for the Scenario 1 log ("the cat" typed as t,h,e,space,c,a,t at
\* 0,100,200,300,400,550,650) the call returns the Word records ('the', 200)
\* and ('cat', 250), one Sentence record of duration 650, Bigram records
\* that include ('th', 100) and ('he', 100), and no Bigram with a space.
Scenario1Result ==
    (pc = "done" /\ file.rows = Scenario1Rows) =>
        /\ word_times = <<(<<(<<"t", "h", "e">>), 200>>),
                          (<<(<<"c", "a", "t">>), 250>>)>>
        /\ Len(sentence_times) = 1
        /\ sentence_times[1][2] = 650
        /\ \E i \in 1..Len(bigram_intervals) :
               bigram_intervals[i] = <<(<<"t", "h">>), 100>>
        /\ \E i \in 1..Len(bigram_intervals) :
               bigram_intervals[i] = <<(<<"h", "e">>), 100>>
        /\ \A i \in 1..Len(bigram_intervals) :
               /\ bigram_intervals[i][1][1] # " "
               /\ bigram_intervals[i][1][2] # " "

\* C2: while a sentence group is aligned the expectation pointer starts at
\* 0, never decreases from one keystroke to the next, grows by at most 1 per
\* keystroke and stays within 0 .. len(expected_sequence).
PointerMonotoneBounded ==
    [][/\ (pc' = "align" =>
              0 <= expected_pos' /\ expected_pos' <= Len(expected_sequence'))
       /\ (pc = "sentence" /\ pc' = "align" => expected_pos' = 0)
       /\ (pc = "align" /\ pc' = "align" =>
              expected_pos' \in {expected_pos, expected_pos + 1})]_vars

\* a group whose pointer reached the end of the target although its first
\* keystroke was not matched
PointerAtEndAfterSkip ==
    /\ pc = "align"
    /\ ks_i = Len(keystrokes) + 1
    /\ expected_pos = Len(expected_sequence)
    /\ Len(keystrokes) > expected_pos
    /\ correct_all_chars[1][1] # keystrokes[1][1]

\* the keystroke about to be processed is one the claim C3 speaks of
RejectedKeystroke ==
    LET char == keystrokes[ks_i][1] IN
    \/ ~(is_typable_character(char) \/ char = <<" ">>)
    \/ expected_pos = Len(expected_sequence)
    \/ (/\ expected_pos < Len(expected_sequence)
        /\ Lower(char) # <<expected_sequence[expected_pos + 1]>>)

\* C3: a keystroke that is neither typable nor a space, or differs from the
\* expected character, or arrives with the pointer exhausted, leaves the
\* alignment state unchanged and emits no record; the loop goes on, and a
\* keystroke that equals the expected character at the pointer is matched.
MismatchLeavesStateUnchanged ==
    [][AtKeystroke =>
          IF RejectedKeystroke
          THEN /\ UNCHANGED <<alignVars, outVars>>
               /\ pc' = "align"
               /\ ks_i' = ks_i + 1
          ELSE /\ expected_pos' = expected_pos + 1
               /\ correct_all_chars' =
                      Append(correct_all_chars,
                             <<keystrokes[ks_i][1], keystrokes[ks_i][2]>>)]_vars

\* the first keystroke was a typable character other than the expected one
\* and the second keystroke was then matched at pointer position 0
MatchedAfterMismatch ==
    /\ pc = "align"
    /\ ks_i = 3
    /\ is_typable_character(keystrokes[1][1])
    /\ Lower(keystrokes[1][1]) # <<expected_sequence[1]>>
    /\ expected_pos = 1
    /\ correct_all_chars = <<(<<keystrokes[2][1], keystrokes[2][2]>>)>>

\* the records a step appends to a list: new is old followed by these
Appended(old, new) == SubSeq(new, Len(old) + 1, Len(new))

IsExtension(old, new) ==
    Len(old) <= Len(new) /\ SubSeq(new, 1, Len(old)) = old

InSeq(x, sq) == \E i \in 1..Len(sq) : sq[i] = x

\* C4: every Word record has 30 <= duration_ms <= 3000 and a word of at
\* least 2 letters that is one of the expected words of its sentence; a
\* single-letter word therefore never yields a Word record.
WordRecordsInWindow ==
    [][/\ IsExtension(word_times, word_times')
       /\ \A i \in 1..Len(Appended(word_times, word_times')) :
              LET r == Appended(word_times, word_times')[i] IN
              /\ pc = "align"
              /\ 30 <= r[2] /\ r[2] <= 3000
              /\ Len(r[1]) >= 2
              /\ InSeq(r[1], expected_words)]_vars

\* a Word record whose duration is the upper limit of the window, in a run
\* that has ended
WordAtUpperLimit ==
    /\ pc = "done"
    /\ \E i \in 1..Len(word_times) : word_times[i][2] = 3000

\* the pairs of the matched-typable-character stream that C5 names, as
\* positions of their first member, in stream order
BigramPairs(stream) ==
    SelectSeq([i \in 1..(Len(stream) - 1) |-> i],
              LAMBDA i : /\ stream[i][1] # <<" ">>
                         /\ stream[i + 1][1] # <<" ">>
                         /\ 30 <= stream[i + 1][2] - stream[i][2]
                         /\ stream[i + 1][2] - stream[i][2] <= 3000)

InGroup == pc \in {"sentence", "align"} /\ group_i <= Len(sentence_keys)

CurrentKey == sentence_keys[group_i]

CurrentTarget == sentence_targets[CurrentKey]

HasNoLetters(text) == \A i \in 1..Len(text) : ~IsAlphaChar(text[i])

\* the alphabetic entries of the matched-typable-character stream
MatchedLetters ==
    SelectSeq(correct_all_chars,
              LAMBDA k : Len(k[1]) = 1 /\ IsAlphaChar(k[1][1]))

TypableCount(text) ==
    Len(SelectSeq(text, LAMBDA c : IsAlphaChar(c) \/ c \in TypableSymbols))

GroupUserInputs ==
    {Strip(file.rows[i][columns.user_input_idx]) :
         i \in {j \in 1..Len(file.rows) :
                    /\ ~RowTooShort(file.rows[j], columns)
                    /\ SentenceKey(
                           Strip(file.rows[j][columns.test_section_idx]),
                           Strip(file.rows[j][columns.sentence_idx]))
                       = CurrentKey}}

BoundaryEvent ==
    /\ AtKeystroke
    /\ ~RejectedKeystroke
    /\ \/ keystrokes[ks_i][1] = <<" ">>
       \/ expected_pos + 1 = Len(expected_sequence)
       \/ (/\ expected_pos + 1 < Len(expected_sequence)
           /\ expected_sequence[expected_pos + 2] = " ")

\* C8 as stated: every word-boundary event advances the word index by
\* exactly 1, leaves the accumulator empty and keeps the word index within
\* the number of expected words.
BoundaryAlwaysAdvancesIndex ==
    [][BoundaryEvent =>
          /\ current_word_index' = current_word_index + 1
          /\ current_word_letters' = <<>>
          /\ current_word_index' <= Len(expected_words)]_vars

\* C8 as amended: a word-boundary event at which the accumulator holds a
\* letter and the word index is in range advances the word index by exactly
\* 1, whether or not a Word record is emitted; any other boundary event
\* leaves it unchanged; the accumulator is empty afterwards and the word
\* index never exceeds the number of expected words.
BoundaryAdvancesIndexOfOpenWord ==
    [][BoundaryEvent =>
          LET open == \/ current_word_letters # <<>>
                      \/ IsAlphaChar(keystrokes[ks_i][1][1])
          IN /\ current_word_index' =
                    IF open /\ current_word_index < Len(expected_words)
                    THEN current_word_index + 1
                    ELSE current_word_index
             /\ current_word_letters' = <<>>
             /\ current_word_index' <= Len(expected_words)]_vars

\* a word of several letters was closed without a Word record, and the word
\* index moved on
IndexAdvancedWithoutRecord ==
    /\ pc = "align"
    /\ Len(correct_letters) >= 2
    /\ current_word_letters = <<>>
    /\ current_word_index = 1
    /\ word_times = <<>>

\* the keystroke records of one sentence group in the order in which their
\* rows appear in the log
GroupInFileOrder(key) ==
    LET rows == SelectSeq(file.rows,
                    LAMBDA r :
                        /\ ~RowTooShort(r, columns)
                        /\ IsInt(r[columns.press_time_idx])
                        /\ SentenceKey(Strip(r[columns.test_section_idx]),
                                       Strip(r[columns.sentence_idx])) = key)
    IN [i \in 1..Len(rows) |->
           <<Strip(rows[i][columns.letter_idx]),
             IntOf(rows[i][columns.press_time_idx]),
             Strip(rows[i][columns.user_input_idx]),
             Strip(rows[i][columns.sentence_idx])>>]

AtTime(sq, t) == SelectSeq(sq, LAMBDA k : k[2] = t)

\* C9: the aligner processes the keystrokes of a group in ascending
\* press_time order whatever their order in the log, and keystrokes of
\* equal press_time in the order in which their records appear in the log;
\* the keystroke loop tests them against the pointer in that order.
StableTimeOrder ==
    [][/\ (pc = "sentence" /\ pc' = "align") =>
              LET g == GroupInFileOrder(CurrentKey) IN
              /\ Len(keystrokes') = Len(g)
              /\ \A i \in 1..Len(g) : \A j \in 1..Len(g) :
                     i < j => keystrokes'[i][2] <= keystrokes'[j][2]
              /\ \A i \in 1..Len(g) :
                     AtTime(keystrokes', g[i][2]) = AtTime(g, g[i][2])
              /\ ks_i' = 1
       /\ AtKeystroke => (ks_i' = ks_i + 1 /\ keystrokes' = keystrokes)]_vars

\* a group whose sort changed the log's order and that holds two different
\* keystrokes of equal press_time
TieInReorderedGroup ==
    /\ pc = "align"
    /\ ks_i = 1
    /\ keystrokes # GroupInFileOrder(CurrentKey)
    /\ \E i \in 1..(Len(keystrokes) - 1) :
           /\ keystrokes[i][2] = keystrokes[i + 1][2]
           /\ keystrokes[i][1] # keystrokes[i + 1][1]

\* the row has a PRESS_TIME field and int() rejects it
BadPressTime(row) ==
    /\ ~RowTooShort(row, ColumnIndices(file.header))
    /\ ~IsInt(row[IndexOf(file.header, "PRESS_TIME")])

\* C10: a record whose PRESS_TIME does not parse as an integer is skipped
\* alone: the call returns exactly the records, in the same order, that it
\* returns for the log without that record.
BadPressTimeRowSkippedAlone ==
    pc = "done" =>
        \A i \in 1..Len(file.rows) :
            BadPressTime(file.rows[i]) =>
                Returned = ProcessFile([file EXCEPT !.rows = RemoveAt(@, i)])

\* a log of three records whose second has an unparsable PRESS_TIME and
\* whose other two yield a bigram
RecordsAroundBadRow ==
    /\ pc = "done"
    /\ Len(file.rows) = 3
    /\ BadPressTime(file.rows[2])
    /\ ~BadPressTime(file.rows[1])
    /\ ~BadPressTime(file.rows[3])
    /\ bigram_intervals # <<>>

\* the participant's log is missing or its header lacks a required column
FailedParticipant(participant_id) ==
    LET f == KeystrokeDir(participant_id) IN
    \/ ~f.exists
    \/ \E k \in 1..Len(RequiredColumns) :
           \A j \in 1..Len(f.header) : f.header[j] # RequiredColumns[k]

\* the records of the participants ids[i], ids[i+1], ... one after the other
RECURSIVE ConcatRecords(_, _)
ConcatRecords(ids, i) ==
    IF i > Len(ids) THEN NoRecords
    ELSE LET r    == ProcessFile(KeystrokeDir(ids[i]))
             rest == ConcatRecords(ids, i + 1)
         IN [bigram_intervals |-> r.bigram_intervals \o rest.bigram_intervals,
             sentence_times   |-> r.sentence_times \o rest.sentence_times,
             word_times       |-> r.word_times \o rest.word_times]

\* C11: for a participant whose log is missing or lacks a required column
\* process_keystroke_file returns three empty lists, the run goes on, and
\* the aggregated lists are the records of the other participants in
\* participant-list order.
FailedParticipantsSkipped ==
    /\ (/\ pc \in {"done", "finished"}
        /\ p_i <= Len(participant_ids)
        /\ FailedParticipant(participant_ids[p_i])) =>
           (pc = "done" /\ Returned = NoRecords)
    /\ pc = "finished" =>
           /\ p_i = Len(participant_ids) + 1
           /\ Aggregated =
                  ConcatRecords(
                      SelectSeq(participant_ids,
                                LAMBDA id : ~FailedParticipant(id)), 1)

\* a run of two participants whose first one failed and whose second one's
\* records were aggregated
RecordsAfterFailedParticipant ==
    /\ pc = "finished"
    /\ Len(participant_ids) = 2
    /\ FailedParticipant(participant_ids[1])
    /\ all_bigrams # <<>>

\* the sentence key of a complete row of the log
RowKey(row) ==
    SentenceKey(Strip(row[IndexOf(file.header, "TEST_SECTION_ID")]),
                Strip(row[IndexOf(file.header, "SENTENCE")]))

\* the log that holds the records of one sentence alone
LogOfSentence(key) ==
    [file EXCEPT !.rows =
        SelectSeq(file.rows,
                  LAMBDA r : /\ ~RowTooShort(r, ColumnIndices(file.header))
                             /\ RowKey(r) = key)]

\* what the sentences keys[i], keys[i+1], ... yield, each from the log that
\* holds it alone, one after the other
RECURSIVE ConcatAlone(_, _)
ConcatAlone(keys, i) ==
    IF i > Len(keys) THEN NoRecords
    ELSE LET r    == ProcessFile(LogOfSentence(keys[i]))
             rest == ConcatAlone(keys, i + 1)
         IN [bigram_intervals |-> r.bigram_intervals \o rest.bigram_intervals,
             sentence_times   |-> r.sentence_times \o rest.sentence_times,
             word_times       |-> r.word_times \o rest.word_times]

\* C12: no alignment state is shared between sentences: every group starts
\* from the initial pointer, accumulators and word index, and the call
\* returns for each sentence, in group order, the records it returns for a
\* log that holds that sentence's records alone.
SentencesIndependent ==
    [][/\ (pc = "sentence" /\ pc' = "align") =>
              /\ expected_pos' = 0
              /\ correct_letters' = <<>>
              /\ correct_all_chars' = <<>>
              /\ current_word_letters' = <<>>
              /\ current_word_index' = 0
       /\ (pc = "sentence" /\ pc' = "done") =>
              Returned = ConcatAlone(sentence_keys, 1)]_vars

\* a log in which the records of two sentences alternate and both sentences
\* yielded a Word record
InterleavedSentencesBothYield ==
    /\ pc = "done"
    /\ Len(file.rows) = 4
    /\ RowKey(file.rows[1]) # RowKey(file.rows[2])
    /\ RowKey(file.rows[2]) # RowKey(file.rows[3])
    /\ RowKey(file.rows[3]) # RowKey(file.rows[4])
    /\ Len(word_times) = 2

\* the field of a complete metadata row under the column called name
MetaField(row, name) == row[IndexOf(meta.header, name)]

\* C13: extract_filtered_rows keeps a complete row with a numeric ERROR_RATE
\* if and only if LAYOUT is qwerty, FINGERS is 9-10, KEYBOARD_TYPE is full
\* or laptop and ERROR_RATE is below max_error_rate (1.167); the header row
\* comes first.
FilterKeepsDocumentedRows ==
    pc = "filter_done" =>
        filtered_rows =
            <<meta.header>> \o
            SelectSeq(meta.rows,
                LAMBDA row :
                    /\ Len(row) >= Len(meta.header)
                    /\ IsFloat(MetaField(row, "ERROR_RATE"))
                    /\ Lower(Strip(MetaField(row, "LAYOUT")))
                       = <<"q", "w", "e", "r", "t", "y">>
                    /\ Strip(MetaField(row, "FINGERS"))
                       = <<"9", "-", "1", "0">>
                    /\ Lower(Strip(MetaField(row, "KEYBOARD_TYPE")))
                       \in {<<"f", "u", "l", "l">>,
                            <<"l", "a", "p", "t", "o", "p">>}
                    /\ MilliOf(MetaField(row, "ERROR_RATE"))
                       < MaxErrorRateMilli)

\* C14: every Sentence record comes from a sentence group whose expectation
\* pointer reached the end of the expected character sequence; a sentence
\* whose alignment stops before the end of the target yields none.
SentenceRecordOnlyForCompletedTarget ==
    [][sentence_times' # sentence_times =>
          expected_pos = Len(expected_sequence)]_vars

\* C15: while a group is aligned the matched-typable-character stream has as
\* many entries as the pointer says and, lower-cased, is that prefix of the
\* expected sequence; the matched-letter stream is the subsequence of its
\* alphabetic entries; every bigram emitted for the group is a pair of
\* characters adjacent in the expected sequence.
MatchedStreamIsTargetPrefix ==
    [][/\ pc' = "align" =>
              /\ Len(correct_all_chars') = expected_pos'
              /\ \A i \in 1..Len(correct_all_chars') :
                     Lower(correct_all_chars'[i][1])
                     = <<expected_sequence'[i]>>
              /\ [i \in 1..Len(correct_letters') |->
                     <<correct_letters'[i][1], correct_letters'[i][2]>>]
                 = SelectSeq(correct_all_chars',
                             LAMBDA k : Len(k[1]) = 1 /\ IsAlphaChar(k[1][1]))
       /\ (pc = "align" /\ pc' = "sentence") =>
              \A n \in 1..Len(Appended(bigram_intervals, bigram_intervals')) :
                  \E i \in 1..(Len(expected_sequence) - 1) :
                      Appended(bigram_intervals, bigram_intervals')[n][1]
                      = <<expected_sequence[i], expected_sequence[i + 1]>>]_vars

\* the target "Ab" typed with the keys A, B after a rejected key: the
\* stream holds the upper-case keys and the bigram is "ab"
UpperCaseKeysMatched ==
    /\ pc = "done"
    /\ Len(keystrokes) = 3
    /\ correct_all_chars = <<(<<(<<"A">>), 0>>), (<<(<<"B">>), 40>>)>>
    /\ bigram_intervals = <<(<<(<<"a", "b">>), 40>>)>>

\* C16: whenever the loop closes a word (a boundary event with a non-empty
\* accumulator and the word index in range) the accumulated letters spell
\* expected_words[current_word_index].
ClosedWordIsExpectedWord ==
    [][BoundaryEvent =>
          LET letters ==
                  IF IsAlphaChar(keystrokes[ks_i][1][1])
                  THEN Append(TypedWord(current_word_letters),
                              LowerChar(keystrokes[ks_i][1][1]))
                  ELSE TypedWord(current_word_letters)
          IN (letters # <<>> /\ current_word_index < Len(expected_words)) =>
                 letters = expected_words[current_word_index + 1]]_vars

====
